---- MODULE Spec2Model ----
(***************************************************************************)
(* Model of the EvoVista pipeline front end (run_gui.py): the stage        *)
(* resolver, the restart planner, the archive transaction, the backend     *)
(* detector and the run request handler.                                   *)
(*                                                                         *)
(* The project directory is a map from entry names to entries.  An entry   *)
(* is absent, a plain file, or a directory with a set of children; "rev"   *)
(* stands for the bytes of the entry (two entries with different rev have  *)
(* different content).                                                     *)
(***************************************************************************)
EXTENDS Integers, Sequences, FiniteSets, TLC

VARIABLES
    project_is_dir,   \* project_dir.is_dir()
    fs,               \* entries of the project root, by name
    archives,         \* archive_<stamp> directories of the project root, by stamp
    clock,            \* datetime.now() at second resolution
    runs,             \* pipeline runs that have written artifacts so far
    platform,         \* "posix" or "nt": decides what os.rename does on an existing target
    op,               \* the operation that acted last
    arg,              \* its from_step argument
    ret,              \* what it returned
    raised,           \* the exception it raised, "" when it returned normally
    pre,              \* project state when the last operation started
    probes,           \* outcomes of the external probe invocations of the last detection
    has_local_cuda,   \* main: result of the last detection
    has_docker,
    backend_status_var,
    backend_var,      \* the selected backend, "local" or "docker"
    rb_local,         \* state of the Local radio button
    rb_docker,        \* state of the Docker radio button
    run_btn,          \* state of the Run button
    operator_choice,  \* the backend the operator clicked last, "" before any click
    project_var,      \* the project combobox
    from_step_var,    \* the "Start from" combobox
    latest_var,       \* the "Latest step" label
    run               \* what the last run request did

fsVars == <<project_is_dir, fs, archives, clock, runs, platform>>
callVars == <<op, arg, ret, raised, pre>>
guiVars == <<has_local_cuda, has_docker, backend_status_var, backend_var, rb_local,
             rb_docker, run_btn, operator_choice, project_var, from_step_var, latest_var, run>>
backendVars == <<has_local_cuda, has_docker, backend_status_var, backend_var, rb_local,
                 rb_docker, run_btn, operator_choice>>
vars == <<project_is_dir, fs, archives, clock, runs, platform, op, arg, ret, raised, pre,
          probes, has_local_cuda, has_docker, backend_status_var, backend_var, rb_local,
          rb_docker, run_btn, operator_choice, project_var, from_step_var, latest_var, run>>

-----------------------------------------------------------------------------
(* Bounds *)
MaxClock == 2     \* seconds the clock can show
MaxRev == 1       \* content revisions the pipeline can produce

-----------------------------------------------------------------------------
(* run_gui.py:20-28 *)
STEPS == <<"video", "images", "images_resized", "feature_extraction",
           "feature_matching", "sparse_reconstruction", "dense_reconstruction">>

Steps == {STEPS[i] : i \in 1..Len(STEPS)}

\* Faulty variant: the rows of feature_extraction and feature_matching are exchanged.
ArtifactsByFromStepRowsExchanged ==
    [s \in Steps |->
        CASE s = "video" ->
               <<"images", "images_resized", "images_resized_filtered", "database.db",
                 "sparse", "dense", "blur_histogram.png">>
          [] s = "images" ->
               <<"images_resized", "images_resized_filtered", "database.db",
                 "sparse", "dense", "blur_histogram.png">>
          [] s = "images_resized" ->
               <<"images_resized_filtered", "database.db", "sparse", "dense",
                 "blur_histogram.png">>
          [] s = "feature_extraction" -> <<"sparse", "dense">>
          [] s = "feature_matching" -> <<"database.db", "sparse", "dense">>
          [] s = "sparse_reconstruction" -> <<"dense">>
          [] s = "dense_reconstruction" -> <<"dense">>]

ARTIFACTS_BY_FROM_STEP ==
    [s \in Steps |->
        CASE s = "video" ->
               <<"images", "images_resized", "images_resized_filtered", "database.db",
                 "sparse", "dense", "blur_histogram.png">>
          [] s = "images" ->
               <<"images_resized", "images_resized_filtered", "database.db",
                 "sparse", "dense", "blur_histogram.png">>
          [] s = "images_resized" ->
               <<"images_resized_filtered", "database.db", "sparse", "dense",
                 "blur_histogram.png">>
          [] s = "feature_extraction" -> <<"database.db", "sparse", "dense">>
          [] s = "feature_matching" -> <<"sparse", "dense">>
          [] s = "sparse_reconstruction" -> <<"dense">>
          [] s = "dense_reconstruction" -> <<"dense">>]

Artifacts == {"images", "images_resized", "images_resized_filtered", "database.db",
              "sparse", "dense", "blur_histogram.png"}

\* A source video in the project root; it is in no artifact list.
Video == "clip.mp4"

RootNames == Artifacts \cup {Video}

\* A from_step that is no key of the stage table.
UnknownStep == "dense_mesh"

\* ARTIFACTS_BY_FROM_STEP.get(from_step, [])
\* Faulty variant: every stage archives the whole list of "video".
ArtifactsGetWholeProject(from_step) ==
    IF from_step \in DOMAIN ARTIFACTS_BY_FROM_STEP
    THEN ARTIFACTS_BY_FROM_STEP["video"]
    ELSE <<>>

ArtifactsGet(from_step) ==
    IF from_step \in DOMAIN ARTIFACTS_BY_FROM_STEP
    THEN ARTIFACTS_BY_FROM_STEP[from_step]
    ELSE <<>>

Range(seq) == {seq[i] : i \in 1..Len(seq)}

-----------------------------------------------------------------------------
(* Filesystem entries *)

\* Children a directory can hold: four images, one for each spelling of the
\* extension, a text file, a subdirectory "0" without fused.ply and a
\* subdirectory "1" holding fused.ply.
Children == {"a.jpg", "b.JPG", "c.jpeg", "d.JPEG", "notes.txt", "0", "1"}

ChildIsDir(c) == c \in {"0", "1"}
ChildFusedPlyExists(c) == c = "1"

Suffix(c) ==
    CASE c = "a.jpg" -> ".jpg"
      [] c = "b.JPG" -> ".JPG"
      [] c = "c.jpeg" -> ".jpeg"
      [] c = "d.JPEG" -> ".JPEG"
      [] c = "notes.txt" -> ".txt"
      [] OTHER -> ""

Absent == [kind |-> "none", data |-> {}, rev |-> 0]
File(r) == [kind |-> "file", data |-> {}, rev |-> r]
Dir(children, r) == [kind |-> "dir", data |-> children, rev |-> r]

Exists(e) == e.kind # "none"
IsDir(e) == e.kind = "dir"
IsFile(e) == e.kind = "file"

\* Path.glob("*"): every entry of a directory
GlobAll(e) == IF IsDir(e) THEN e.data ELSE {}

\* Path.glob("*" + ext): the match is case-sensitive
Glob(e, ext) == IF IsDir(e) THEN {c \in e.data : Suffix(c) = ext} ELSE {}

-----------------------------------------------------------------------------
(* Stage Resolver: run_gui.py:86-105 *)

\* The "unresolved" marker get_latest_step returns (an em dash in the source).
Unresolved == "-"

RootSuffix(name) == IF name = Video THEN ".mp4" ELSE ""

\* project_dir.glob("*.mov") + project_dir.glob("*.mp4")
Videos(f) == {n \in RootNames : Exists(f[n]) /\ RootSuffix(n) \in {".mov", ".mp4"}}

\* dense.is_dir() and any((dense / d.name / "fused.ply").exists()
\*                        for d in dense.iterdir() if d.is_dir())
DenseDone(f) ==
    /\ IsDir(f["dense"])
    /\ \E d \in f["dense"].data : ChildIsDir(d) /\ ChildFusedPlyExists(d)

\* sparse.is_dir() and any(sparse.iterdir())
SparseDone(f) == IsDir(f["sparse"]) /\ f["sparse"].data # {}

\* Faulty variant: the sparse rule is tested before the dense rule.
GetLatestStepSparseFirst(dir, f) ==
    IF ~dir THEN Unresolved
    ELSE IF SparseDone(f) THEN "sparse_reconstruction"
    ELSE IF DenseDone(f) THEN "dense_reconstruction"
    ELSE IF IsFile(f["database.db"]) THEN "feature_matching"
    ELSE IF IsDir(f["images_resized"]) /\ Glob(f["images_resized"], ".jpg") # {}
         THEN "images_resized"
    ELSE IF IsDir(f["images"]) /\ Glob(f["images"], ".jpg") # {} THEN "images"
    ELSE IF Videos(f) # {} THEN "video"
    ELSE Unresolved

GetLatestStep(dir, f) ==
    IF ~dir THEN Unresolved
    ELSE IF DenseDone(f) THEN "dense_reconstruction"
    ELSE IF SparseDone(f) THEN "sparse_reconstruction"
    ELSE IF IsFile(f["database.db"]) THEN "feature_matching"
    ELSE IF IsDir(f["images_resized"]) /\ Glob(f["images_resized"], ".jpg") # {}
         THEN "images_resized"
    ELSE IF IsDir(f["images"]) /\ Glob(f["images"], ".jpg") # {} THEN "images"
    ELSE IF Videos(f) # {} THEN "video"
    ELSE Unresolved

-----------------------------------------------------------------------------
(* Restart Planner: run_gui.py:108-120 *)

\* The body of the loop for one name: does it make the function return True?
\* Faulty variant: sparse/ and dense/ count only when non-empty.
ArtifactAtRiskNonEmptyOnly(f, name) ==
    LET p == f[name] IN
    /\ Exists(p)
    /\ IF IsDir(p) THEN GlobAll(p) # {} ELSE TRUE

ArtifactAtRisk(f, name) ==
    LET p == f[name] IN
    /\ Exists(p)
    /\ IF IsDir(p) THEN name \in {"sparse", "dense"} \/ GlobAll(p) # {} ELSE TRUE

HasExistingPipelineData(f, from_step) ==
    \E name \in Range(ArtifactsGet(from_step)) : ArtifactAtRisk(f, name)

-----------------------------------------------------------------------------
(* Archive Transaction: run_gui.py:123-139 *)

NoItems == [n \in Artifacts |-> Absent]
NoArchive == [present |-> FALSE, items |-> NoItems]

\* Path.rename(dst) is os.rename: the exception it raises, "" when it succeeds.
\* POSIX replaces an existing file by a file and an existing empty directory
\* by a directory; Windows refuses every existing target.
Rename(src, dst, os) ==
    IF ~Exists(dst) THEN ""
    ELSE IF os = "nt" THEN "FileExistsError"
    ELSE IF IsFile(src) /\ IsDir(dst) THEN "IsADirectoryError"
    ELSE IF IsDir(src) /\ IsFile(dst) THEN "NotADirectoryError"
    ELSE IF IsDir(src) /\ IsDir(dst) /\ dst.data # {} THEN "OSError"
    ELSE ""

\* src.rename(dst) done: the entry leaves the project root for the archive.
\* Faulty variant: the entry is copied, the original stays.
RelocateByCopy(st, name, stamp) ==
    [st EXCEPT !.archives[stamp].items[name] = st.fs[name]]

Relocate(st, name, stamp) ==
    [st EXCEPT !.fs[name] = Absent,
               !.archives[stamp].items[name] = st.fs[name]]

\* Faulty variant: the loop ends after the first artifact it relocates.
MoveArtifactsFirstOnly(st, names, i, stamp, os) ==
    LET existing == {j \in i..Len(names) : Exists(st.fs[names[j]])} IN
    IF existing = {} THEN st
    ELSE LET j == CHOOSE k \in existing : \A m \in existing : k <= m
             name == names[j]
             err == Rename(st.fs[name], st.archives[stamp].items[name], os)
         IN  IF err # "" THEN [st EXCEPT !.raised = err, !.failed = name]
             ELSE Relocate(st, name, stamp)

\* The loop of lines 130-138 from index i on.  st is [fs, archives, raised,
\* failed]: a rename that raises ends the loop; the exception carries the
\* error and the path of the one artifact whose rename failed.
RECURSIVE MoveArtifacts(_, _, _, _, _)
MoveArtifacts(st, names, i, stamp, os) ==
    IF i > Len(names) THEN st
    ELSE LET name == names[i]
             src == st.fs[name]
             dst == st.archives[stamp].items[name]
             err == Rename(src, dst, os)
         IN  IF ~Exists(src) THEN MoveArtifacts(st, names, i + 1, stamp, os)
             ELSE IF err # "" THEN [st EXCEPT !.raised = err, !.failed = name]
             ELSE MoveArtifacts(Relocate(st, name, stamp), names, i + 1, stamp, os)

\* archive_dir.mkdir(parents=True, exist_ok=True), then the loop.
ArchiveProjectData(f, arch, from_step, stamp, os) ==
    LET names == ArtifactsGet(from_step)
        made == [arch EXCEPT ![stamp].present = TRUE]
    IN  MoveArtifacts([fs |-> f, archives |-> made, raised |-> "", failed |-> ""],
                      names, 1, stamp, os)

-----------------------------------------------------------------------------
(* Backend Detector: run_gui.py:31-74 *)

\* The outcome of one subprocess.run: it could not be launched ("absent": the
\* tool is not installed, "exception": any other launch exception), or it ran
\* and exited with rc after writing out.  Output text is a sequence of words.
Outcome(launch, rc, out) == [launch |-> launch, rc |-> rc, out |-> out]

NotRun == Outcome("notrun", 0, <<>>)
NoProbes == [colmap1 |-> NotRun, colmap2 |-> NotRun, docker |-> NotRun]

\* str.lower() on one word
LowerWord(w) ==
    CASE w = "CUDA" -> "cuda"
      [] w = "Cuda" -> "cuda"
      [] w = "COLMAP" -> "colmap"
      [] w = "With" -> "with"
      [] w = "Enabled" -> "enabled"
      [] OTHER -> w

Lower(out) == [i \in 1..Len(out) |-> LowerWord(out[i])]

\* pat in text, for text and pat sequences of words
Contains(text, pat) ==
    \E i \in 0..(Len(text) - Len(pat)) :
        \A j \in 1..Len(pat) : text[i + j] = pat[j]

\* Faulty variant: _cmd_output without the try/except, a launch exception propagates.
CmdOutputUnguarded(o) ==
    IF o.launch = "ok"
    THEN [rc |-> o.rc, out |-> o.out, raised |-> ""]
    ELSE [rc |-> 0, out |-> <<>>,
          raised |-> IF o.launch = "absent" THEN "FileNotFoundError" ELSE "Exception"]

\* _cmd_output: (returncode, stdout), or (127, "") on any exception
CmdOutput(o) ==
    IF o.launch = "ok"
    THEN [rc |-> o.rc, out |-> o.out, raised |-> ""]
    ELSE [rc |-> 127, out |-> <<>>, raised |-> ""]

\* docker_is_available
DockerIsAvailable(o) ==
    LET r == CmdOutput(o) IN
    [val |-> r.raised = "" /\ r.rc = 0, raised |-> r.raised]

\* local_colmap_has_cuda: o1 is the first "colmap version", o2 the second
LocalColmapHasCuda(o1, o2) ==
    LET r1 == CmdOutput(o1)
        r2 == CmdOutput(o2)
        lo == Lower(r2.out)
    IN  IF r1.raised # "" THEN [val |-> FALSE, raised |-> r1.raised]
        ELSE IF r1.rc # 0 THEN [val |-> FALSE, raised |-> ""]
        ELSE IF r2.raised # "" THEN [val |-> FALSE, raised |-> r2.raised]
        ELSE IF Contains(lo, <<"without", "cuda">>) THEN [val |-> FALSE, raised |-> ""]
        ELSE IF Contains(lo, <<"with", "cuda">>) \/ Contains(lo, <<"cuda", "enabled">>)
             THEN [val |-> TRUE, raised |-> ""]
        ELSE [val |-> FALSE, raised |-> ""]

\* Faulty variant: the two single-backend results carry each other's booleans.
DetectColmapBackendsSwapped(o1, o2, o3) ==
    LET l == LocalColmapHasCuda(o1, o2)
        d == DockerIsAvailable(o3)
    IN  IF l.raised # "" THEN [local |-> FALSE, docker |-> FALSE, status |-> "", raised |-> l.raised]
        ELSE IF d.raised # "" THEN [local |-> FALSE, docker |-> FALSE, status |-> "", raised |-> d.raised]
        ELSE IF l.val /\ d.val
             THEN [local |-> TRUE, docker |-> TRUE,
                   status |-> "COLMAP local CUDA + Docker detected", raised |-> ""]
        ELSE IF l.val
             THEN [local |-> FALSE, docker |-> TRUE, status |-> "COLMAP Local only", raised |-> ""]
        ELSE IF d.val
             THEN [local |-> TRUE, docker |-> FALSE, status |-> "COLMAP Docker only", raised |-> ""]
        ELSE [local |-> FALSE, docker |-> FALSE, status |-> "No COLMAP CUDA found", raised |-> ""]

\* detect_colmap_backends
DetectColmapBackends(o1, o2, o3) ==
    LET l == LocalColmapHasCuda(o1, o2)
        d == DockerIsAvailable(o3)
        has_local_cuda_ == l.val
        has_docker_ == d.val
    IN  IF l.raised # "" THEN [local |-> FALSE, docker |-> FALSE, status |-> "", raised |-> l.raised]
        ELSE IF d.raised # "" THEN [local |-> FALSE, docker |-> FALSE, status |-> "", raised |-> d.raised]
        ELSE IF has_local_cuda_ /\ has_docker_
             THEN [local |-> TRUE, docker |-> TRUE,
                   status |-> "COLMAP local CUDA + Docker detected", raised |-> ""]
        ELSE IF has_local_cuda_
             THEN [local |-> TRUE, docker |-> FALSE, status |-> "COLMAP Local only", raised |-> ""]
        ELSE IF has_docker_
             THEN [local |-> FALSE, docker |-> TRUE, status |-> "COLMAP Docker only", raised |-> ""]
        ELSE [local |-> FALSE, docker |-> FALSE, status |-> "No COLMAP CUDA found", raised |-> ""]

\* Version texts the reconstruction tool can print.
ColmapTexts ==
    { <<"COLMAP", "3.9", "with", "CUDA">>,
      <<"COLMAP", "3.9", "without", "CUDA">>,
      <<"Cuda", "Enabled">>,
      <<"COLMAP", "3.9">>,
      <<"without", "CUDA", "rebuild", "with", "cuda">>,
      <<>> }

ColmapOutcomes ==
    {Outcome("absent", 0, <<>>), Outcome("exception", 0, <<>>)}
        \cup {Outcome("ok", rc, t) : rc \in {0, 1}, t \in ColmapTexts}

DockerOutcomes ==
    {Outcome("absent", 0, <<>>), Outcome("exception", 0, <<>>)}
        \cup {Outcome("ok", rc, <<"Server", "Version">>) : rc \in {0, 1}}

NoProjects == "(no projects in data/)"
Project == "proj"

\* What a run request did: how it ended, whether the driver script was there,
\* the names the "Existing data" dialog listed and the operator's answer (when
\* the dialog was shown), whether archive_project_data was called, and the
\* backend handed to the dispatcher.
NoRun == [outcome |-> "none", run_sh |-> FALSE, warned |-> {}, choice |-> "",
          archived |-> FALSE, backend |-> ""]

\* The window's variables in the specifications that never open the window.
GuiIdle ==
    /\ has_local_cuda = FALSE
    /\ has_docker = FALSE
    /\ backend_status_var = ""
    /\ backend_var = "docker"
    /\ rb_local = "disabled"
    /\ rb_docker = "disabled"
    /\ run_btn = "disabled"
    /\ operator_choice = ""
    /\ project_var = ""
    /\ from_step_var = "video"
    /\ latest_var = Unresolved
    /\ run = NoRun

-----------------------------------------------------------------------------
(* The operations as actions.  Each records what it was called with, what   *)
(* it returned or raised, and the project state it started from.            *)

Snapshot == [dir |-> project_is_dir, fs |-> fs, archives |-> archives, clock |-> clock]

GetLatestStepCall ==
    /\ op' = "get_latest_step"
    /\ arg' = ""
    /\ ret' = GetLatestStep(project_is_dir, fs)
    /\ raised' = ""
    /\ pre' = Snapshot
    /\ UNCHANGED fsVars
    /\ UNCHANGED probes
    /\ UNCHANGED guiVars

\* Faulty variant: the check creates the project directory it looks into.
HasExistingPipelineDataCallMkdir(from_step) ==
    /\ op' = "has_existing_pipeline_data"
    /\ arg' = from_step
    /\ ret' = HasExistingPipelineData(fs, from_step)
    /\ raised' = ""
    /\ pre' = Snapshot
    /\ project_is_dir' = TRUE
    /\ UNCHANGED <<fs, archives, clock, runs, platform>>
    /\ UNCHANGED probes
    /\ UNCHANGED guiVars

HasExistingPipelineDataCall(from_step) ==
    /\ op' = "has_existing_pipeline_data"
    /\ arg' = from_step
    /\ ret' = HasExistingPipelineData(fs, from_step)
    /\ raised' = ""
    /\ pre' = Snapshot
    /\ UNCHANGED fsVars
    /\ UNCHANGED probes
    /\ UNCHANGED guiVars

ArchiveProjectDataCall(from_step) ==
    LET r == ArchiveProjectData(fs, archives, from_step, clock, platform) IN
    /\ op' = "archive_project_data"
    /\ arg' = from_step
    \* the stamp of the returned path, or what the exception tells the caller
    /\ ret' = IF r.raised = "" THEN clock ELSE [filename |-> r.failed]
    /\ raised' = r.raised
    /\ pre' = Snapshot
    /\ project_is_dir' = TRUE                       \* mkdir(parents=True)
    /\ fs' = r.fs
    /\ archives' = r.archives
    /\ UNCHANGED <<clock, runs, platform, probes>>
    /\ UNCHANGED guiVars

-----------------------------------------------------------------------------
(* SpecApi: each function applied once to a project snapshot drawn from     *)
(* the combinations of the entry shapes below.                              *)

ShapesOf(name) ==
    CASE name = "images" -> {Absent, Dir({}, 0), Dir({"a.jpg"}, 0), Dir({"b.JPG"}, 0)}
      [] name = "images_resized" ->
           {Absent, Dir({}, 0), Dir({"a.jpg"}, 0), Dir({"notes.txt"}, 0)}
      [] name = "images_resized_filtered" -> {Absent, Dir({}, 0)}
      [] name = "database.db" -> {Absent, File(0), Dir({}, 0)}
      [] name = "sparse" -> {Absent, Dir({}, 0), Dir({"0"}, 0), File(0)}
      [] name = "dense" ->
           {Absent, Dir({}, 0), Dir({"0"}, 0), Dir({"1"}, 0), Dir({"0", "1"}, 0)}
      [] name = "blur_histogram.png" -> {Absent, File(0)}
      [] name = Video -> {Absent, File(0)}

MkFs(im, ir, irf, db, sp, de, bh, vi) ==
    [n \in RootNames |->
        CASE n = "images" -> im
          [] n = "images_resized" -> ir
          [] n = "images_resized_filtered" -> irf
          [] n = "database.db" -> db
          [] n = "sparse" -> sp
          [] n = "dense" -> de
          [] n = "blur_histogram.png" -> bh
          [] n = Video -> vi]

EmptyProject == [n \in RootNames |-> Absent]

NoCall ==
    /\ op = "none"
    /\ arg = ""
    /\ ret = ""
    /\ raised = ""
    /\ pre = Snapshot

InitApi ==
    /\ project_is_dir \in BOOLEAN
    /\ \E im \in ShapesOf("images"), ir \in ShapesOf("images_resized"),
          irf \in ShapesOf("images_resized_filtered"), db \in ShapesOf("database.db"),
          sp \in ShapesOf("sparse"), de \in ShapesOf("dense"),
          bh \in ShapesOf("blur_histogram.png"), vi \in ShapesOf(Video) :
            fs = IF project_is_dir THEN MkFs(im, ir, irf, db, sp, de, bh, vi)
                 ELSE EmptyProject
    /\ archives = [t \in 1..MaxClock |-> NoArchive]
    /\ clock = 1
    /\ runs = 0
    /\ platform = "posix"
    /\ NoCall
    /\ probes = NoProbes
    /\ GuiIdle

ApiGetLatestStep == op = "none" /\ GetLatestStepCall

ApiHasExistingPipelineData ==
    op = "none" /\ \E s \in Steps \cup {UnknownStep} : HasExistingPipelineDataCall(s)

ApiArchiveProjectData ==
    op = "none" /\ \E s \in Steps \cup {UnknownStep} : ArchiveProjectDataCall(s)

NextApi == ApiGetLatestStep \/ ApiHasExistingPipelineData \/ ApiArchiveProjectData

SpecApi == InitApi /\ [][NextApi]_vars

-----------------------------------------------------------------------------
(* SpecReads: get_latest_step and has_existing_pipeline_data called any     *)
(* number of times, in any order, on a project snapshot.                    *)

ReadLatestStep == GetLatestStepCall

ReadExistingData == \E s \in Steps \cup {UnknownStep} : HasExistingPipelineDataCall(s)

NextReads == ReadLatestStep \/ ReadExistingData

SpecReads == InitApi /\ [][NextReads]_vars

\* C17: a call of get_latest_step or has_existing_pipeline_data changes no
\* entry of the project and no archive and raises nothing; on a missing
\* project directory it returns the unresolved marker / false; its result is
\* the one the same call returns when made again, and the one the previous
\* call returned when that was the same call.
C17_ReadsChangeNothing ==
    [][op' \in {"get_latest_step", "has_existing_pipeline_data"} =>
          /\ project_is_dir' = project_is_dir
          /\ fs' = fs
          /\ archives' = archives
          /\ raised' = ""
          /\ ~project_is_dir =>
                 ret' = IF op' = "get_latest_step" THEN Unresolved ELSE FALSE
          /\ ret' = IF op' = "get_latest_step"
                    THEN GetLatestStep(project_is_dir', fs')
                    ELSE HasExistingPipelineData(fs', arg')
          /\ (op = op' /\ arg = arg') => ret' = ret]_vars

\* has_existing_pipeline_data on a missing project, after another read.
C17_Witness ==
    /\ op = "has_existing_pipeline_data"
    /\ arg = "video"
    /\ ~project_is_dir
    /\ ret = FALSE
    /\ pre.dir = FALSE

-----------------------------------------------------------------------------
(* Claims about the resolver and the planner, checked under SpecApi *)

\* Pipeline order of the stages; the unresolved marker is below all of them.
StageRank(stage) ==
    IF \E i \in 1..Len(STEPS) : STEPS[i] = stage
    THEN CHOOSE i \in 1..Len(STEPS) : STEPS[i] = stage
    ELSE 0

\* The rule of each stage the resolver can report, as section 4.2 states it.
RuleMatches(f, stage) ==
    CASE stage = "dense_reconstruction" ->
           f["dense"].kind = "dir" /\ "1" \in f["dense"].data
      [] stage = "sparse_reconstruction" ->
           f["sparse"].kind = "dir" /\ f["sparse"].data # {}
      [] stage = "feature_matching" -> f["database.db"].kind = "file"
      [] stage = "images_resized" ->
           f["images_resized"].kind = "dir" /\ "a.jpg" \in f["images_resized"].data
      [] stage = "images" -> f["images"].kind = "dir" /\ "a.jpg" \in f["images"].data
      [] stage = "video" -> f[Video].kind # "none"
      [] OTHER -> FALSE

\* The stage whose rule reads the entry; 0 for entries no rule reads.
RankOfEntry(name) ==
    CASE name = "dense" -> StageRank("dense_reconstruction")
      [] name = "sparse" -> StageRank("sparse_reconstruction")
      [] name = "database.db" -> StageRank("feature_matching")
      [] name = "images_resized" -> StageRank("images_resized")
      [] name = "images" -> StageRank("images")
      [] name = Video -> StageRank("video")
      [] OTHER -> 0

\* C1: when dense/ holds a subdirectory with fused.ply the resolver returns
\* dense_reconstruction whatever else the project holds; in general it returns
\* the most advanced stage whose rule matches (the unresolved marker when none
\* does), and replacing the entry of any earlier stage by any other shape
\* leaves the result as it is.
C1_FurthestStageWins ==
    (op = "get_latest_step" /\ pre.dir) =>
        /\ RuleMatches(pre.fs, "dense_reconstruction") => ret = "dense_reconstruction"
        /\ \A s \in Steps : RuleMatches(pre.fs, s) => StageRank(ret) >= StageRank(s)
        /\ ret # Unresolved => RuleMatches(pre.fs, ret)
        /\ \A n \in RootNames : \A e \in ShapesOf(n) :
              RankOfEntry(n) < StageRank(ret) =>
                  GetLatestStep(pre.dir, [pre.fs EXCEPT ![n] = e]) = ret

C1_Witness ==
    /\ op = "get_latest_step"
    /\ pre.dir
    /\ pre.fs["dense"] = Dir({"0", "1"}, 0)
    /\ pre.fs["sparse"] = Dir({"0"}, 0)
    /\ pre.fs["database.db"] = File(0)
    /\ pre.fs["images"] = Absent
    /\ ret = "dense_reconstruction"

\* Existence of one artifact under the Artifact Inspector rules of section 4.1.
InspectorExists(f, name) ==
    \/ f[name].kind = "file"
    \/ f[name].kind = "dir" /\ name \in {"sparse", "dense"}
    \/ f[name].kind = "dir" /\ f[name].data # {}

\* C2: for every stage of the stage table, has_existing_pipeline_data is true
\* exactly when at least one name of the stage's artifact list exists under the
\* inspector rules (a file exists; sparse and dense exist as directories even
\* when empty; any other directory exists when it has an entry).
C2_AtRiskIffSomeArtifactExists ==
    (op = "has_existing_pipeline_data" /\ arg \in Steps) =>
        (ret <=> \E name \in Range(ARTIFACTS_BY_FROM_STEP[arg]) :
                    InspectorExists(pre.fs, name))

C2_Witness ==
    /\ op = "has_existing_pipeline_data"
    /\ arg = "sparse_reconstruction"
    /\ pre.fs["dense"] = Dir({}, 0)
    /\ pre.fs["images_resized"] = Dir({"notes.txt"}, 0)
    /\ ret = TRUE

\* C6: with a from_step that is no key of the stage table, both
\* has_existing_pipeline_data and archive_project_data end in an error and
\* leave the project directory as it was.
C6_UnknownStepIsFatal ==
    (op \in {"has_existing_pipeline_data", "archive_project_data"} /\ arg \notin Steps) =>
        /\ raised # ""
        /\ project_is_dir = pre.dir
        /\ fs = pre.fs
        /\ archives = pre.archives

\* The pipeline order of the stages.
PipelineOrder ==
    <<"video", "images", "images_resized", "feature_extraction", "feature_matching",
      "sparse_reconstruction", "dense_reconstruction">>

\* C18: along the pipeline order the stage table is monotonic: the artifact
\* list of each stage holds every name of the list of the stage after it; so
\* data at risk for a stage is at risk for the stage before it.
C18_StageTableMonotonic ==
    /\ DOMAIN ARTIFACTS_BY_FROM_STEP = Range(PipelineOrder)
    /\ \A i \in 1..(Len(PipelineOrder) - 1) :
          /\ Range(ARTIFACTS_BY_FROM_STEP[PipelineOrder[i + 1]])
                 \subseteq Range(ARTIFACTS_BY_FROM_STEP[PipelineOrder[i]])
          /\ (op = "has_existing_pipeline_data" /\ arg = PipelineOrder[i + 1] /\ ret = TRUE)
                 => HasExistingPipelineData(pre.fs, PipelineOrder[i])

\* Data at risk for feature_matching, with the only artifact that
\* feature_extraction adds to the list absent.
C18_Witness ==
    /\ op = "has_existing_pipeline_data"
    /\ arg = "feature_matching"
    /\ ret = TRUE
    /\ pre.fs["database.db"] = Absent
    /\ HasExistingPipelineData(pre.fs, "feature_extraction")

-----------------------------------------------------------------------------
(* SpecArchive: archive transactions interleaved with pipeline runs that    *)
(* regenerate artifacts and with the passing of time.                       *)

\* What the pipeline driver leaves under a name it writes, with content r; a
\* run that fails in the dense stage leaves dense/ empty.
Produced(name, r, ok) ==
    CASE name = "images" -> Dir({"a.jpg"}, r)
      [] name = "images_resized" -> Dir({"a.jpg"}, r)
      [] name = "images_resized_filtered" -> Dir({"a.jpg"}, r)
      [] name = "database.db" -> File(r)
      [] name = "sparse" -> Dir({"0"}, r)
      [] name = "dense" -> IF ok THEN Dir({"1"}, r) ELSE Dir({}, r)
      [] name = "blur_histogram.png" -> File(r)

\* The pipeline started from from_step writes every artifact of that stage's list.
RunPipeline(from_step, ok) ==
    /\ runs < MaxRev
    /\ project_is_dir
    /\ runs' = runs + 1
    /\ fs' = [n \in RootNames |->
                IF n \in Range(ARTIFACTS_BY_FROM_STEP[from_step])
                THEN Produced(n, runs + 1, ok)
                ELSE fs[n]]
    /\ op' = "run_pipeline"
    /\ arg' = from_step
    /\ ret' = ""
    /\ raised' = ""
    /\ pre' = Snapshot
    /\ UNCHANGED <<project_is_dir, archives, clock, platform, probes>>
    /\ UNCHANGED guiVars

\* A second passes.
Tick ==
    /\ clock < MaxClock
    /\ clock' = clock + 1
    /\ UNCHANGED <<project_is_dir, fs, archives, runs, platform, probes>>
    /\ UNCHANGED callVars
    /\ UNCHANGED guiVars

VideoOnly == [EmptyProject EXCEPT ![Video] = File(0)]

CompleteProject ==
    [n \in RootNames |-> IF n = Video THEN File(0) ELSE Produced(n, 0, TRUE)]

\* A project whose last run failed in the dense stage.
FailedDense == [CompleteProject EXCEPT !["dense"] = Dir({}, 0)]

InitArchive ==
    /\ project_is_dir = TRUE
    /\ fs \in {VideoOnly, CompleteProject, FailedDense}
    /\ archives = [t \in 1..MaxClock |-> NoArchive]
    /\ clock = 1
    /\ runs = 0
    /\ platform \in {"posix", "nt"}
    /\ NoCall
    /\ probes = NoProbes
    /\ GuiIdle

\* The restart stages the sequences are explored for: artifact lists of six,
\* three and one names, with files and directories.
TriedSteps == {"images", "feature_extraction", "sparse_reconstruction"}

Archive == \E s \in TriedSteps : ArchiveProjectDataCall(s)

Pipeline == \E s \in TriedSteps, ok \in BOOLEAN : RunPipeline(s, ok)

NextArchive == Archive \/ Pipeline \/ Tick

SpecArchive == InitArchive /\ [][NextArchive]_vars

-----------------------------------------------------------------------------
(* Claims about the archive transaction, checked under SpecArchive *)

ArchiveReturned == op = "archive_project_data" /\ raised = ""

\* The names of the stage's list that existed when the transaction started.
Relocated == {n \in Range(ArtifactsGet(arg)) : pre.fs[n].kind # "none"}

\* C3: after archive_project_data returns, every artifact it relocated is gone
\* from the project root and sits under the returned archive directory at the
\* same name with the content it had; names of the list that did not exist are
\* neither created in the root nor in the archive.
C3_RelocatedRoundTrip ==
    ArchiveReturned =>
        /\ \A n \in Relocated :
              /\ fs[n] = Absent
              /\ archives[ret].items[n] = pre.fs[n]
        /\ \A n \in Range(ArtifactsGet(arg)) \ Relocated :
              /\ fs[n] = Absent
              /\ archives[ret].items[n] = pre.archives[ret].items[n]

C3_Witness ==
    /\ ArchiveReturned
    /\ arg = "feature_extraction"
    /\ Relocated = {"database.db", "sparse", "dense"}
    /\ archives[ret].items["database.db"].kind = "file"
    /\ archives[ret].items["sparse"].kind = "dir"

\* C4: archive_project_data changes no entry of the project root whose name is
\* outside the stage's list (images for stage images, the source video), no
\* archive directory other than its own, and creates no entry but its archive
\* directory.
C4_OnlyListedArtifactsTouched ==
    op = "archive_project_data" =>
        /\ \A n \in RootNames \ Range(ARTIFACTS_BY_FROM_STEP[arg]) : fs[n] = pre.fs[n]
        /\ \A n \in RootNames : fs[n].kind # "none" => pre.fs[n].kind # "none"
        /\ \A t \in 1..MaxClock : t # pre.clock => archives[t] = pre.archives[t]
        /\ archives[pre.clock].present

C4_Witness ==
    /\ ArchiveReturned
    /\ arg = "images"
    /\ Relocated # {}
    /\ fs["images"].kind = "dir"
    /\ fs[Video].kind = "file"
    /\ \E t \in 1..MaxClock : t # ret /\ archives[t].present

\* C5: when archive_<stamp> of the current second already exists, the
\* transaction fails or uses another directory, and the existing archive keeps
\* every entry it had.
C5_ExistingArchiveNeverReused ==
    (op = "archive_project_data" /\ pre.archives[pre.clock].present) =>
        /\ raised = "" => ret # pre.clock
        /\ archives[pre.clock] = pre.archives[pre.clock]

\* Position of a name in the stage's list.
IndexOf(names, n) == CHOOSE i \in 1..Len(names) : names[i] = n

\* The artifacts a failed transaction's exception names to the caller.
ReportedNames == {ret.filename}

\* C13: when the relocation of one artifact fails, every artifact relocated
\* before it stays in the archive directory, the failing one and every one
\* after it stay at their original path, and what the caller receives names
\* every artifact of the transaction, moved or not.
C13_PartialFailureReported ==
    (op = "archive_project_data" /\ raised # "") =>
        LET names == ArtifactsGet(arg)
            k == IndexOf(names, ret.filename)
        IN  /\ \A i \in 1..Len(names) :
                  IF i < k /\ Exists(pre.fs[names[i]])
                  THEN /\ fs[names[i]] = Absent
                       /\ archives[pre.clock].items[names[i]] = pre.fs[names[i]]
                  ELSE fs[names[i]] = pre.fs[names[i]]
            /\ \A n \in Range(names) : Exists(pre.fs[n]) => n \in ReportedNames

\* C23: right after archive_project_data(project, S) has returned for a stage
\* S of the stage table, has_existing_pipeline_data(project, S) is false and
\* get_latest_step(project) is no stage after S in the pipeline order.
C23_NothingLeftAtRiskAfterArchive ==
    (ArchiveReturned /\ arg \in Steps) =>
        /\ ~HasExistingPipelineData(fs, arg)
        /\ StageRank(GetLatestStep(project_is_dir, fs)) <= StageRank(arg)

\* A finished project archived from feature_matching: database.db stays, and
\* the project is resolved as being at feature_matching.
C23_Witness ==
    /\ ArchiveReturned
    /\ arg = "feature_matching"
    /\ GetLatestStep(pre.dir, pre.fs) = "dense_reconstruction"
    /\ pre.fs["sparse"] = Dir({"0"}, 0)
    /\ pre.fs["database.db"] = File(0)
    /\ GetLatestStep(project_is_dir, fs) = "feature_matching"

-----------------------------------------------------------------------------
(* Blur filter: src/blur_analysis.py:41-108, run in the project directory   *)
(* with the default --input, --output-plot and --output-filtered-dir.       *)

\* patterns = ("*.jpg", "*.JPG", "*.jpeg", "*.JPEG")
ImagePatterns == {".jpg", ".JPG", ".jpeg", ".JPEG"}

\* input_dir.glob(pat) for every pattern
GlobImages(e) == UNION {Glob(e, ext) : ext \in ImagePatterns}

\* cv2.imread returns an image: d.JPEG is a truncated file, it gives None.
Decodable(c) == c \in {"a.jpg", "b.JPG", "c.jpeg"}

\* cv2.Laplacian(img, cv2.CV_64F).var() of each image
LapVar(c) ==
    CASE c = "a.jpg" -> 10
      [] c = "b.JPG" -> 50
      [] c = "c.jpeg" -> 90
      [] OTHER -> 0

\* args.threshold: None, or one number
NoThreshold == <<>>
Thresholds == {NoThreshold, <<10>>, <<50>>, <<90>>, <<100>>}

\* The file plot_blur_histogram saves: its content is given by the values plotted.
Histogram(blur_values) == [kind |-> "file", data |-> blur_values, rev |-> 0]

\* Faulty variant: the filtered directory is not cleared before the copies.
BlurAnalysisNoClear(f, threshold, skip_if_plot_exists) ==
    LET input_dir == f["images_resized"]
        out_plot == f["blur_histogram.png"]
        path_blur == {c \in GlobImages(input_dir) : Decodable(c)}
        plotted == [f EXCEPT !["blur_histogram.png"] =
                        Histogram({LapVar(c) : c \in path_blur})]
        filtered_dir == f["images_resized_filtered"]
        kept == {c \in path_blur : LapVar(c) >= threshold[1]}
    IN  IF ~IsDir(input_dir)
        THEN [fs |-> f, raised |-> "SystemExit: Input directory not found"]
        ELSE IF skip_if_plot_exists /\ IsFile(out_plot) THEN [fs |-> f, raised |-> ""]
        ELSE IF path_blur = {} THEN [fs |-> f, raised |-> "SystemExit: No images found."]
        ELSE IF IsDir(out_plot) THEN [fs |-> f, raised |-> "IsADirectoryError"]
        ELSE IF threshold = NoThreshold THEN [fs |-> plotted, raised |-> ""]
        ELSE IF IsFile(filtered_dir) THEN [fs |-> plotted, raised |-> "FileExistsError"]
        ELSE [fs |-> [plotted EXCEPT !["images_resized_filtered"] =
                          Dir(filtered_dir.data \cup kept, input_dir.rev)],
              raised |-> ""]

\* Faulty variant: with a threshold the filtered directory is cleared before
\* the test for an empty result, so a failed run has already emptied it.
BlurAnalysisClearsFirst(f, threshold, skip_if_plot_exists) ==
    LET input_dir == f["images_resized"]
        out_plot == f["blur_histogram.png"]
        path_blur == {c \in GlobImages(input_dir) : Decodable(c)}
        plotted == [f EXCEPT !["blur_histogram.png"] =
                        Histogram({LapVar(c) : c \in path_blur})]
        filtered_dir == f["images_resized_filtered"]
        kept == {c \in path_blur : LapVar(c) >= threshold[1]}
        others == {c \in filtered_dir.data : Suffix(c) \notin ImagePatterns}
        cleared == IF threshold # NoThreshold /\ IsDir(filtered_dir)
                   THEN [f EXCEPT !["images_resized_filtered"] =
                             Dir(others, filtered_dir.rev)]
                   ELSE f
    IN  IF ~IsDir(input_dir)
        THEN [fs |-> f, raised |-> "SystemExit: Input directory not found"]
        ELSE IF skip_if_plot_exists /\ IsFile(out_plot) THEN [fs |-> f, raised |-> ""]
        ELSE IF path_blur = {}
             THEN [fs |-> cleared, raised |-> "SystemExit: No images found."]
        ELSE IF IsDir(out_plot) THEN [fs |-> f, raised |-> "IsADirectoryError"]
        ELSE IF threshold = NoThreshold THEN [fs |-> plotted, raised |-> ""]
        ELSE IF IsFile(filtered_dir) THEN [fs |-> plotted, raised |-> "FileExistsError"]
        ELSE [fs |-> [plotted EXCEPT !["images_resized_filtered"] =
                          Dir(others \cup kept, input_dir.rev)],
              raised |-> ""]

\* Faulty variant: --skip-if-plot-exists is ignored.
BlurAnalysisNoSkip(f, threshold, skip_if_plot_exists) ==
    LET input_dir == f["images_resized"]
        out_plot == f["blur_histogram.png"]
        path_blur == {c \in GlobImages(input_dir) : Decodable(c)}
        plotted == [f EXCEPT !["blur_histogram.png"] =
                        Histogram({LapVar(c) : c \in path_blur})]
        filtered_dir == f["images_resized_filtered"]
        kept == {c \in path_blur : LapVar(c) >= threshold[1]}
        others == {c \in filtered_dir.data : Suffix(c) \notin ImagePatterns}
    IN  IF ~IsDir(input_dir)
        THEN [fs |-> f, raised |-> "SystemExit: Input directory not found"]
        ELSE IF path_blur = {} THEN [fs |-> f, raised |-> "SystemExit: No images found."]
        ELSE IF IsDir(out_plot) THEN [fs |-> f, raised |-> "IsADirectoryError"]
        ELSE IF threshold = NoThreshold THEN [fs |-> plotted, raised |-> ""]
        ELSE IF IsFile(filtered_dir) THEN [fs |-> plotted, raised |-> "FileExistsError"]
        ELSE [fs |-> [plotted EXCEPT !["images_resized_filtered"] =
                          Dir(others \cup kept, input_dir.rev)],
              raised |-> ""]

\* main(): the project's entries after the run, and what it raised.
\*   lines 51-53  the input directory must exist
\*   lines 62-64  nothing is done when the plot exists and the flag is set
\*   lines 70-81  path_blur: the images matched by the patterns that decode
\*   lines 83-84  no decodable image is fatal
\*   lines 86-91  the histogram is saved (savefig cannot write onto a directory)
\*   lines 94-107 with a threshold: the filtered directory is made, cleared of
\*                every file matching the patterns, and receives a copy of
\*                every image whose value is >= the threshold
BlurAnalysis(f, threshold, skip_if_plot_exists) ==
    LET input_dir == f["images_resized"]
        out_plot == f["blur_histogram.png"]
        path_blur == {c \in GlobImages(input_dir) : Decodable(c)}
        plotted == [f EXCEPT !["blur_histogram.png"] =
                        Histogram({LapVar(c) : c \in path_blur})]
        filtered_dir == f["images_resized_filtered"]
        kept == {c \in path_blur : LapVar(c) >= threshold[1]}
        others == {c \in filtered_dir.data : Suffix(c) \notin ImagePatterns}
    IN  IF ~IsDir(input_dir)
        THEN [fs |-> f, raised |-> "SystemExit: Input directory not found"]
        ELSE IF skip_if_plot_exists /\ IsFile(out_plot) THEN [fs |-> f, raised |-> ""]
        ELSE IF path_blur = {} THEN [fs |-> f, raised |-> "SystemExit: No images found."]
        ELSE IF IsDir(out_plot) THEN [fs |-> f, raised |-> "IsADirectoryError"]
        ELSE IF threshold = NoThreshold THEN [fs |-> plotted, raised |-> ""]
        ELSE IF IsFile(filtered_dir) THEN [fs |-> plotted, raised |-> "FileExistsError"]
        ELSE [fs |-> [plotted EXCEPT !["images_resized_filtered"] =
                          Dir(others \cup kept, input_dir.rev)],
              raised |-> ""]

BlurAnalysisCall(threshold, skip_if_plot_exists) ==
    LET r == BlurAnalysis(fs, threshold, skip_if_plot_exists) IN
    /\ project_is_dir
    /\ op' = "blur_analysis"
    /\ arg' = [threshold |-> threshold, skip_if_plot_exists |-> skip_if_plot_exists]
    /\ ret' = ""
    /\ raised' = r.raised
    /\ pre' = Snapshot
    /\ fs' = r.fs
    /\ UNCHANGED <<project_is_dir, archives, clock, runs, platform, probes>>
    /\ UNCHANGED guiVars

-----------------------------------------------------------------------------
(* SpecBlur: sequences of blur-filter runs on one project                   *)

\* images_resized/ as the resize stage can leave it
BlurInputs ==
    { Absent, Dir({}, 0), Dir({"d.JPEG", "notes.txt"}, 0),
      Dir({"a.jpg", "d.JPEG"}, 0), Dir({"a.jpg", "b.JPG", "c.jpeg"}, 0),
      Dir({"a.jpg", "b.JPG", "c.jpeg", "d.JPEG", "notes.txt"}, 0) }

\* images_resized_filtered/ before the first run: absent, empty, or holding
\* files of an earlier filter
BlurFiltered == {Absent, Dir({}, 0), Dir({"b.JPG", "d.JPEG", "notes.txt"}, 0)}

InitBlur ==
    /\ project_is_dir = TRUE
    /\ \E ir \in BlurInputs, irf \in BlurFiltered, bh \in {Absent, Histogram({50})} :
          fs = MkFs(Absent, ir, irf, Absent, Absent, Absent, bh, File(0))
    /\ archives = [t \in 1..MaxClock |-> NoArchive]
    /\ clock = 1
    /\ runs = 0
    /\ platform = "posix"
    /\ NoCall
    /\ probes = NoProbes
    /\ GuiIdle

BlurRun == \E t \in Thresholds, skip \in BOOLEAN : BlurAnalysisCall(t, skip)

NextBlur == BlurRun

SpecBlur == InitBlur /\ [][NextBlur]_vars

(* Claims about the blur filter, checked under SpecBlur *)

\* The decodable input images whose value is >= the threshold.
Qualifying(f, threshold) ==
    {c \in GlobImages(f["images_resized"]) : Decodable(c) /\ LapVar(c) >= threshold[1]}

\* C12: after a blur-filter run that supplies a threshold, with
\* skip-if-plot-exists off and at least one decodable input image, whatever
\* runs came before, the accepted-extension images of images_resized_filtered/
\* are exactly the decodable input images whose value is >= that threshold.
C12_FilteredIsExactlyQualifying ==
    (/\ op = "blur_analysis"
     /\ arg.threshold # NoThreshold
     /\ ~arg.skip_if_plot_exists
     /\ \E c \in GlobImages(pre.fs["images_resized"]) : Decodable(c)
     /\ raised = "")
        => GlobImages(fs["images_resized_filtered"]) = Qualifying(pre.fs, arg.threshold)

\* A run with threshold 90 after one that kept more: the earlier copies are gone.
C12_Witness ==
    /\ op = "blur_analysis"
    /\ arg = [threshold |-> <<90>>, skip_if_plot_exists |-> FALSE]
    /\ raised = ""
    /\ pre.fs["images_resized_filtered"].data = {"a.jpg", "b.JPG", "c.jpeg", "notes.txt"}
    /\ fs["images_resized_filtered"].data = {"c.jpeg", "notes.txt"}

\* C20: a run with skip-if-plot-exists set while blur_histogram.png exists
\* changes no entry of the project, whatever threshold it is given; a run
\* without the flag, or with the histogram absent, that completes writes the
\* histogram of the current input and, given a threshold, leaves exactly the
\* qualifying images in the filtered directory.
C20_SkipChangesNothing ==
    op = "blur_analysis" =>
        IF arg.skip_if_plot_exists /\ IsFile(pre.fs["blur_histogram.png"])
        THEN /\ fs = pre.fs
             /\ IsDir(pre.fs["images_resized"]) => raised = ""
        ELSE raised = "" =>
             /\ fs["blur_histogram.png"] =
                    Histogram({LapVar(c) : c \in Qualifying(pre.fs, <<0>>)})
             /\ arg.threshold # NoThreshold =>
                    GlobImages(fs["images_resized_filtered"])
                        = Qualifying(pre.fs, arg.threshold)

\* A skipped run with threshold 10 after a run with threshold 90.
C20_Witness ==
    /\ op = "blur_analysis"
    /\ arg = [threshold |-> <<10>>, skip_if_plot_exists |-> TRUE]
    /\ raised = ""
    /\ pre.fs["blur_histogram.png"] = Histogram({10, 50, 90})
    /\ pre.fs["images_resized_filtered"] = Dir({"c.jpeg"}, 0)
    /\ fs = pre.fs

\* The run reads its input: the input directory exists and the run does not
\* take the skip-if-plot-exists return of lines 62-64.
BlurReadsInput ==
    /\ op = "blur_analysis"
    /\ IsDir(pre.fs["images_resized"])
    /\ ~(arg.skip_if_plot_exists /\ IsFile(pre.fs["blur_histogram.png"]))

\* The images of the input the patterns match, split by whether they decode.
DecodableInputs == {c \in GlobImages(pre.fs["images_resized"]) : Decodable(c)}
UndecodableInputs == {c \in GlobImages(pre.fs["images_resized"]) : ~Decodable(c)}

\* C21: a blur-filter run that reads an input with no decodable image ends
\* with the fatal "No images found." and leaves every entry of the project,
\* the histogram and the filtered directory among them, as it was; a run on
\* an input with undecodable images and at least one decodable image
\* completes without error, and after it no undecodable image is among the
\* files it put into the filtered directory.
C21_NoDecodableImageIsFatal ==
    BlurReadsInput =>
        IF DecodableInputs = {}
        THEN /\ raised = "SystemExit: No images found."
             /\ fs = pre.fs
        ELSE /\ raised = ""
             /\ IF arg.threshold = NoThreshold
                THEN fs["images_resized_filtered"] = pre.fs["images_resized_filtered"]
                ELSE GlobImages(fs["images_resized_filtered"]) \cap UndecodableInputs = {}

\* A failed run with a threshold on an input holding only an undecodable
\* image, while the filtered directory holds images of an earlier filter.
C21_Witness ==
    /\ BlurReadsInput
    /\ arg.threshold = <<10>>
    /\ UndecodableInputs = {"d.JPEG"}
    /\ DecodableInputs = {}
    /\ raised = "SystemExit: No images found."
    /\ fs["images_resized_filtered"] = Dir({"b.JPG", "d.JPEG", "notes.txt"}, 0)
    /\ fs["blur_histogram.png"] = Histogram({50})

-----------------------------------------------------------------------------
(* The resolver and the image stages, checked under SpecApi *)

\* No rule for a stage after images_resized matches (lines 90-97).
NoLaterRuleMatches(f) == ~DenseDone(f) /\ ~SparseDone(f) /\ ~IsFile(f["database.db"])

\* C19: when no later-stage rule matches, get_latest_step returns
\* images_resized whenever images_resized/ holds an image with one of the
\* extensions the resize and blur stages process (.jpg, .JPG, .jpeg, .JPEG),
\* and otherwise images whenever images/ holds one.
C19_ResolverAcceptsPipelineExtensions ==
    (op = "get_latest_step" /\ pre.dir /\ NoLaterRuleMatches(pre.fs)) =>
        /\ GlobImages(pre.fs["images_resized"]) # {} => ret = "images_resized"
        /\ (GlobImages(pre.fs["images_resized"]) = {} /\ GlobImages(pre.fs["images"]) # {})
               => ret = "images"

-----------------------------------------------------------------------------
(* SpecDetect: the detector functions applied once to every combination of  *)
(* probe outcomes.                                                          *)

InitDetect ==
    /\ project_is_dir = TRUE
    /\ fs = VideoOnly
    /\ archives = [t \in 1..MaxClock |-> NoArchive]
    /\ clock = 1
    /\ runs = 0
    /\ platform = "posix"
    /\ NoCall
    /\ GuiIdle
    /\ \E o1 \in ColmapOutcomes, o2 \in ColmapOutcomes, o3 \in DockerOutcomes :
          probes = [colmap1 |-> o1, colmap2 |-> o2, docker |-> o3]

CallDockerIsAvailable ==
    LET r == DockerIsAvailable(probes.docker) IN
    /\ op = "none"
    /\ op' = "docker_is_available"
    /\ ret' = r.val
    /\ raised' = r.raised
    /\ UNCHANGED <<arg, pre, probes>>
    /\ UNCHANGED fsVars
    /\ UNCHANGED guiVars

CallLocalColmapHasCuda ==
    LET r == LocalColmapHasCuda(probes.colmap1, probes.colmap2) IN
    /\ op = "none"
    /\ op' = "local_colmap_has_cuda"
    /\ ret' = r.val
    /\ raised' = r.raised
    /\ UNCHANGED <<arg, pre, probes>>
    /\ UNCHANGED fsVars
    /\ UNCHANGED guiVars

CallDetectColmapBackends ==
    LET r == DetectColmapBackends(probes.colmap1, probes.colmap2, probes.docker) IN
    /\ op = "none"
    /\ op' = "detect_colmap_backends"
    /\ ret' = [local |-> r.local, docker |-> r.docker, status |-> r.status]
    /\ raised' = r.raised
    /\ UNCHANGED <<arg, pre, probes>>
    /\ UNCHANGED fsVars
    /\ UNCHANGED guiVars

NextDetect == CallDockerIsAvailable \/ CallLocalColmapHasCuda \/ CallDetectColmapBackends

SpecDetect == InitDetect /\ [][NextDetect]_vars

(* Claims about the detector, checked under SpecDetect *)

Launched(o) == o.launch = "ok"

\* A probe that ran and exited with an error without printing anything.
ErrorExit == Outcome("ok", 1, <<>>)

AsErrorExit(o) == IF Launched(o) THEN o ELSE ErrorExit

StatusTexts == {"COLMAP local CUDA + Docker detected", "COLMAP Local only",
                "COLMAP Docker only", "No COLMAP CUDA found"}

\* C9: detect_colmap_backends never raises; for every outcome of every probe
\* it returns two booleans and a status text; a backend whose probe could not
\* be launched is unavailable, and the whole result is the one the detector
\* gives when that probe runs and exits with an error instead.
C9_DetectNeverRaises ==
    op = "detect_colmap_backends" =>
        /\ raised = ""
        /\ ret.local \in BOOLEAN
        /\ ret.docker \in BOOLEAN
        /\ ret.status \in StatusTexts
        /\ ~Launched(probes.colmap1) => ~ret.local
        /\ (Launched(probes.colmap1) /\ probes.colmap1.rc = 0 /\ ~Launched(probes.colmap2))
               => ~ret.local
        /\ ~Launched(probes.docker) => ~ret.docker
        /\ LET e == DetectColmapBackends(AsErrorExit(probes.colmap1),
                                         AsErrorExit(probes.colmap2),
                                         AsErrorExit(probes.docker))
           IN  ret = [local |-> e.local, docker |-> e.docker, status |-> e.status]

C9_Witness ==
    /\ op = "detect_colmap_backends"
    /\ probes.colmap1.launch = "absent"
    /\ probes.docker.launch = "exception"
    /\ ret = [local |-> FALSE, docker |-> FALSE, status |-> "No COLMAP CUDA found"]

\* The capability markers of section 4.5, read off a version text.
WithMarker(out) ==
    \E i \in 1..Len(out) :
        \/ i < Len(out) /\ out[i] \in {"with", "With"} /\ out[i + 1] \in {"CUDA", "cuda", "Cuda"}
        \/ i < Len(out) /\ out[i] \in {"CUDA", "cuda", "Cuda"}
                        /\ out[i + 1] \in {"enabled", "Enabled"}

WithoutMarker(out) ==
    \E i \in 1..Len(out) :
        i < Len(out) /\ out[i] = "without" /\ out[i + 1] \in {"CUDA", "cuda", "Cuda"}

\* C10: local_colmap_has_cuda reports the backend available exactly when the
\* invocation whose output it inspects (the second version query, made when the
\* first one exited with 0) exited without error and its output holds a
\* with-cuda or cuda-enabled marker and no without-cuda marker.
C10_AvailableIffInspectedRunSucceeded ==
    op = "local_colmap_has_cuda" =>
        (ret <=> /\ Launched(probes.colmap1) /\ probes.colmap1.rc = 0
                 /\ Launched(probes.colmap2) /\ probes.colmap2.rc = 0
                 /\ WithMarker(probes.colmap2.out)
                 /\ ~WithoutMarker(probes.colmap2.out))

\* Both probed tools are absent: neither command could be launched.
BothToolsAbsent ==
    /\ probes.colmap1.launch = "absent"
    /\ probes.colmap2.launch = "absent"
    /\ probes.docker.launch = "absent"

\* Only the local tool reports acceleration: its version query exits with 0
\* and prints the marker, and the container runtime probe fails.
OnlyLocalReportsCuda ==
    /\ Launched(probes.colmap1) /\ probes.colmap1.rc = 0
    /\ Launched(probes.colmap2) /\ probes.colmap2.rc = 0
    /\ WithMarker(probes.colmap2.out) /\ ~WithoutMarker(probes.colmap2.out)
    /\ ~(Launched(probes.docker) /\ probes.docker.rc = 0)

\* The two booleans are the results of the local and the container probe.
BooleansAreProbeResults ==
    /\ ret.local = LocalColmapHasCuda(probes.colmap1, probes.colmap2).val
    /\ ret.docker = DockerIsAvailable(probes.docker).val

\* C11 as stated: detect_colmap_backends returns (false, false, "No backend
\* found") when both probed tools are absent, (true, false, ...) when only the
\* local tool reports acceleration and the container probe fails, and in every
\* case the two booleans are the results of the two probes.
C11_NoBackendFoundText ==
    op = "detect_colmap_backends" =>
        /\ BooleansAreProbeResults
        /\ BothToolsAbsent =>
               ret = [local |-> FALSE, docker |-> FALSE, status |-> "No backend found"]
        /\ OnlyLocalReportsCuda => (ret.local /\ ~ret.docker)

\* C11 amended: the same statement with the status text the detector returns
\* when nothing is found, "No COLMAP CUDA found".
C11_DetectorResult ==
    op = "detect_colmap_backends" =>
        /\ BooleansAreProbeResults
        /\ BothToolsAbsent =>
               ret = [local |-> FALSE, docker |-> FALSE, status |-> "No COLMAP CUDA found"]
        /\ OnlyLocalReportsCuda => (ret.local /\ ~ret.docker)

C11_Witness ==
    /\ op = "detect_colmap_backends"
    /\ OnlyLocalReportsCuda
    /\ probes.docker.launch = "ok"
    /\ ret = [local |-> TRUE, docker |-> FALSE, status |-> "COLMAP Local only"]

-----------------------------------------------------------------------------
(* The window: run_gui.py:261-468 *)

\* apply_backend_availability (lines 422-437): the states of the two radio
\* buttons and of the Run button, and the selection.
ApplyBackendAvailability(local_ok, docker_ok, selected) ==
    [rb_local |-> IF local_ok THEN "normal" ELSE "disabled",
     rb_docker |-> IF docker_ok THEN "normal" ELSE "disabled",
     backend_var |-> IF local_ok /\ docker_ok
                     THEN (IF selected \notin {"local", "docker"} THEN "local" ELSE selected)
                     ELSE IF local_ok THEN "local"
                     ELSE IF docker_ok THEN "docker"
                     ELSE selected,
     run_btn |-> IF local_ok \/ docker_ok THEN "normal" ELSE "disabled"]

\* refresh_latest (lines 289-294)
RefreshLatest(p, dir, f) ==
    IF p = "" \/ p = NoProjects THEN Unresolved ELSE GetLatestStep(dir, f)

\* The checks of do_run before it touches anything (lines 358-367): the error
\* shown to the operator, "" when the request may proceed.
\* Faulty variant: the check of lines 365-367 is missing.
PreconditionErrorNoBackendCheck(p, run_sh, local_ok, docker_ok) ==
    IF p = "" \/ p = NoProjects THEN "no_project"
    ELSE IF ~run_sh THEN "no_run_sh"
    ELSE ""

\* Faulty variant: the check of lines 362-364 is missing.
PreconditionErrorNoDriverCheck(p, run_sh, local_ok, docker_ok) ==
    IF p = "" \/ p = NoProjects THEN "no_project"
    ELSE IF ~(local_ok \/ docker_ok) THEN "no_backend"
    ELSE ""

PreconditionError(p, run_sh, local_ok, docker_ok) ==
    IF p = "" \/ p = NoProjects THEN "no_project"
    ELSE IF ~run_sh THEN "no_run_sh"
    ELSE IF ~(local_ok \/ docker_ok) THEN "no_backend"
    ELSE ""

\* How do_run ends (lines 358-415): a failed check, Cancel in the dialog, an
\* exception of archive_project_data, or the call of run_pipeline_in_terminal.
\* Faulty variant: the except branch of lines 397-399 does not return.
RunOutcomeDespiteArchiveFailure(err, existing, choice, archive_raised, term_ok) ==
    IF err # "" THEN err
    ELSE IF existing /\ choice = "cancel" THEN "cancelled"
    ELSE IF term_ok THEN "started"
    ELSE "terminal_failed"

RunOutcome(err, existing, choice, archive_raised, term_ok) ==
    IF err # "" THEN err
    ELSE IF existing /\ choice = "cancel" THEN "cancelled"
    ELSE IF existing /\ choice = "yes" /\ archive_raised # "" THEN "archive_failed"
    ELSE IF term_ok THEN "started"
    ELSE "terminal_failed"

\* What detect_colmap_backends can return, over every combination of probe outcomes.
DetectionResults ==
    {DetectColmapBackends(o1, o2, o3) :
        o1 \in ColmapOutcomes, o2 \in ColmapOutcomes, o3 \in DockerOutcomes}

\* main up to mainloop: the project list (line 265), the first detection
\* (line 312), the default selection (line 318) and the first
\* apply_backend_availability (line 446).
Init ==
    /\ project_is_dir \in BOOLEAN
    /\ fs = IF project_is_dir THEN CompleteProject ELSE EmptyProject
    /\ archives = [t \in 1..MaxClock |-> NoArchive]
    /\ clock = 1
    /\ runs = 0
    /\ platform = "posix"
    /\ NoCall
    /\ probes = NoProbes
    /\ project_var \in {"", Project}
    /\ project_var = "" => project_is_dir
    /\ from_step_var = "video"
    /\ latest_var = RefreshLatest(project_var, project_is_dir, fs)
    /\ operator_choice = ""
    /\ run = NoRun
    /\ \E d \in DetectionResults :
          LET a == ApplyBackendAvailability(d.local, d.docker,
                                            IF d.local THEN "local" ELSE "docker")
          IN  /\ has_local_cuda = d.local
              /\ has_docker = d.docker
              /\ backend_status_var = d.status
              /\ backend_var = a.backend_var
              /\ rb_local = a.rb_local
              /\ rb_docker = a.rb_docker
              /\ run_btn = a.run_btn

\* redetect_backends (lines 439-443)
RedetectBackends ==
    \E d \in DetectionResults :
        LET a == ApplyBackendAvailability(d.local, d.docker, backend_var)
        IN  /\ has_local_cuda' = d.local
            /\ has_docker' = d.docker
            /\ backend_status_var' = d.status
            /\ backend_var' = a.backend_var
            /\ rb_local' = a.rb_local
            /\ rb_docker' = a.rb_docker
            /\ run_btn' = a.run_btn
            /\ op' = "gui_event"
            /\ UNCHANGED <<arg, ret, raised, pre, probes>>
            /\ UNCHANGED <<operator_choice, project_var, from_step_var, latest_var, run>>
            /\ UNCHANGED fsVars

\* The operator clicks a radio button (lines 321-322); a disabled one ignores it.
SelectBackend ==
    \E b \in {"local", "docker"} :
        /\ IF b = "local" THEN rb_local = "normal" ELSE rb_docker = "normal"
        /\ backend_var' = b
        /\ operator_choice' = b
        /\ op' = "gui_event"
        /\ UNCHANGED <<arg, ret, raised, pre, probes>>
        /\ UNCHANGED <<has_local_cuda, has_docker, backend_status_var, rb_local, rb_docker,
                       run_btn, project_var, from_step_var, latest_var, run>>
        /\ UNCHANGED fsVars

\* The operator picks a project in the combobox (lines 281-283) or presses
\* Refresh (line 298): refresh_latest runs.
SelectProject ==
    /\ project_var' = IF project_var \in {"", NoProjects} THEN NoProjects ELSE Project
    /\ latest_var' = RefreshLatest(project_var', project_is_dir, fs)
    /\ op' = "gui_event"
    /\ UNCHANGED <<arg, ret, raised, pre, probes>>
    /\ UNCHANGED backendVars
    /\ UNCHANGED <<from_step_var, run>>
    /\ UNCHANGED fsVars

\* The operator picks a restart stage in the "Start from" combobox (line 308).
SelectFromStep ==
    \E s \in TriedSteps \cup {"video"} :
        /\ from_step_var' = s
        /\ op' = "gui_event"
        /\ UNCHANGED <<arg, ret, raised, pre, probes>>
        /\ UNCHANGED backendVars
        /\ UNCHANGED <<project_var, latest_var, run>>
        /\ UNCHANGED fsVars

\* do_run (lines 357-415).  run_sh is RUN_SH.is_file(), choice the answer to
\* askyesnocancel, term_ok whether run_pipeline_in_terminal could open a
\* terminal.
DoRun ==
    \E run_sh \in BOOLEAN, choice \in {"yes", "no", "cancel"}, term_ok \in BOOLEAN :
        LET err == PreconditionError(project_var, run_sh, has_local_cuda, has_docker)
            existing == err = "" /\ HasExistingPipelineData(fs, from_step_var)
            doArchive == existing /\ choice = "yes"
            a == ArchiveProjectData(fs, archives, from_step_var, clock, platform)
            outcome == RunOutcome(err, existing, choice, a.raised, term_ok)
            dispatched == outcome \in {"started", "terminal_failed"}
        IN  /\ op' = "do_run"
            /\ arg' = from_step_var
            /\ ret' = ""
            /\ raised' = ""
            /\ pre' = Snapshot
            /\ project_is_dir' = (project_is_dir \/ doArchive)
            /\ fs' = IF doArchive THEN a.fs ELSE fs
            /\ archives' = IF doArchive THEN a.archives ELSE archives
            /\ run' = [outcome |-> outcome,
                       run_sh |-> run_sh,
                       warned |-> IF existing THEN Range(ArtifactsGet(from_step_var)) ELSE {},
                       choice |-> IF existing THEN choice ELSE "",
                       archived |-> doArchive,
                       backend |-> IF dispatched THEN backend_var ELSE ""]
            /\ latest_var' = IF outcome = "started"
                             THEN RefreshLatest(project_var, project_is_dir', fs')
                             ELSE latest_var
            /\ UNCHANGED <<clock, runs, platform, probes>>
            /\ UNCHANGED backendVars
            /\ UNCHANGED <<project_var, from_step_var>>

\* The pipeline a run request started in the terminal writes its artifacts.
\* Spec leaves it out of Next: there the project changes by archiving only;
\* SpecRun below has it.
PipelineWrites ==
    /\ run.outcome = "started"
    /\ \E ok \in BOOLEAN : RunPipeline(arg, ok)

Next ==
    \/ RedetectBackends
    \/ SelectBackend
    \/ SelectProject
    \/ SelectFromStep
    \/ DoRun

Spec == Init /\ [][Next]_vars

-----------------------------------------------------------------------------
(* SpecRun: repeated run requests for one restart stage, with a project     *)
(* selected or not and with both backends or none detected, interleaved     *)
(* with the pipeline the requests start and with the passing of time, so    *)
(* that a request can meet the archive of an earlier one.                   *)

InitRun ==
    /\ project_is_dir = TRUE
    /\ fs \in {CompleteProject, FailedDense}
    /\ archives = [t \in 1..MaxClock |-> NoArchive]
    /\ clock = 1
    /\ runs = 0
    /\ platform \in {"posix", "nt"}
    /\ NoCall
    /\ probes = NoProbes
    /\ project_var \in {"", Project}
    /\ from_step_var \in TriedSteps \cup {"video"}   \* picked in "Start from"
    /\ latest_var = RefreshLatest(project_var, project_is_dir, fs)
    /\ operator_choice = ""
    /\ run = NoRun
    /\ \E d \in DetectionResults :
          LET a == ApplyBackendAvailability(d.local, d.docker,
                                            IF d.local THEN "local" ELSE "docker")
          IN  /\ d.local = d.docker
              /\ has_local_cuda = d.local
              /\ has_docker = d.docker
              /\ backend_status_var = d.status
              /\ backend_var = a.backend_var
              /\ rb_local = a.rb_local
              /\ rb_docker = a.rb_docker
              /\ run_btn = a.run_btn

NextRun == DoRun \/ PipelineWrites \/ Tick

SpecRun == InitRun /\ [][NextRun]_vars

-----------------------------------------------------------------------------
(* Claims about the run request, checked under SpecRun and Spec *)

\* The request reached run_pipeline_in_terminal (line 408).
Dispatched == run.outcome \in {"started", "terminal_failed"}

\* The request found data the restart would overwrite (lines 373-374).
RequestWithExistingData ==
    /\ op = "do_run"
    /\ run.outcome \notin {"none", "no_project", "no_run_sh", "no_backend"}
    /\ HasExistingPipelineData(pre.fs, arg)

\* archive_project_data ran to its end in this request: every artifact of the
\* stage's list that was in the project root is now in the archive directory.
ArchiveCompleted ==
    \A n \in Range(ArtifactsGet(arg)) :
        Exists(pre.fs[n]) =>
            /\ fs[n] = Absent
            /\ archives[pre.clock].items[n] = pre.fs[n]

\* C14 as stated: a run request that finds existing data for the requested
\* stage reaches the run dispatcher only after the archive transaction has
\* completed.
C14_ArchiveBeforeEveryDispatch ==
    (RequestWithExistingData /\ Dispatched) =>
        /\ run.archived
        /\ ArchiveCompleted

\* C14 amended: such a request reaches the run dispatcher only after the
\* operator answered the dialog with Archive and the archive transaction has
\* completed, or after the operator answered Overwrite, and then nothing has
\* been archived or changed.
C14_ArchiveOrOverwriteBeforeDispatch ==
    (RequestWithExistingData /\ Dispatched) =>
        IF run.choice = "yes"
        THEN /\ run.archived
             /\ ArchiveCompleted
        ELSE /\ run.choice = "no"
             /\ ~run.archived
             /\ fs = pre.fs
             /\ archives = pre.archives

\* A second request for the stage, after the pipeline of the first one ran,
\* answered with Archive.
C14_Witness ==
    /\ RequestWithExistingData
    /\ Dispatched
    /\ runs = 1
    /\ run.choice = "yes"
    /\ run.archived
    /\ arg = "feature_extraction"
    /\ pre.fs["database.db"] = File(1)
    /\ archives[pre.clock].items["database.db"] = File(1)
    /\ fs["database.db"] = Absent

\* The request failed one of the checks of lines 358-367.
PreconditionFailed ==
    \/ project_var \in {"", NoProjects}
    \/ ~run.run_sh
    \/ ~(has_local_cuda \/ has_docker)

\* C22: within one run request the dispatcher is reached only when a project
\* is selected, the driver script is present and a backend is available, and,
\* when the operator chose Archive, only when archive_project_data has moved
\* everything it had to move; a request that fails a check or is answered
\* with Cancel does not dispatch and leaves the project and the archives as
\* they were; a request whose archive stopped on an error does not dispatch.
C22_DispatchOnlyAfterChecksAndArchive ==
    op = "do_run" =>
        /\ Dispatched => ~PreconditionFailed
        /\ (Dispatched /\ run.choice = "yes") => (run.archived /\ ArchiveCompleted)
        /\ PreconditionFailed => run.outcome \in {"no_project", "no_run_sh", "no_backend"}
        /\ (~PreconditionFailed /\ run.choice = "cancel") => run.outcome = "cancelled"
        /\ run.outcome \in {"no_project", "no_run_sh", "no_backend", "cancelled"} =>
               /\ ~Dispatched
               /\ ~run.archived
               /\ project_is_dir = pre.dir
               /\ fs = pre.fs
               /\ archives = pre.archives
        /\ (run.archived /\ ~ArchiveCompleted) =>
               /\ run.outcome = "archive_failed"
               /\ ~Dispatched

\* A request answered with Archive whose archive moved database.db and then
\* stopped on sparse/: nothing was dispatched.
C22_Witness ==
    /\ op = "do_run"
    /\ run.choice = "yes"
    /\ run.archived
    /\ run.outcome = "archive_failed"
    /\ arg = "feature_extraction"
    /\ fs["database.db"] = Absent
    /\ fs["sparse"] = pre.fs["sparse"]
    /\ Exists(fs["sparse"])

\* The names of a stage's list that exist under the Artifact Inspector rules.
AtRiskNames(f, from_step) ==
    {n \in Range(ArtifactsGet(from_step)) : InspectorExists(f, n)}

\* The names that left the project root during the request.
MovedNames == {n \in RootNames : Exists(pre.fs[n]) /\ ~Exists(fs[n])}

\* C15: the names a run request lists to the operator as about to be
\* overwritten, and the names its archive transaction relocates, are exactly
\* the names of the stage's list that exist under the inspector rules.
C15_AtRiskSetIsFilteredList ==
    RequestWithExistingData =>
        /\ run.warned = AtRiskNames(pre.fs, arg)
        /\ (run.archived /\ run.outcome # "archive_failed") =>
               MovedNames = AtRiskNames(pre.fs, arg)

\* C16: a run request for a project whose directory does not exist is refused
\* with an error and never reaches the run dispatcher.
C16_MissingProjectDirIsFatal ==
    (op = "do_run" /\ project_var = Project /\ ~pre.dir) =>
        /\ ~Dispatched
        /\ run.outcome \in {"no_project", "no_run_sh", "no_backend"}

-----------------------------------------------------------------------------
(* Claims about backend selection and the run request, checked under Spec *)

\* C7: a run request made while the last detection reported no backend never
\* reaches the run dispatcher and never archives: the project is as it was.
C7_NoBackendNoDispatch ==
    (op = "do_run" /\ ~has_local_cuda /\ ~has_docker) =>
        /\ ~Dispatched
        /\ run.backend = ""
        /\ ~run.archived
        /\ fs = pre.fs
        /\ archives = pre.archives

\* The request had a project and a driver script, the stage had data to
\* archive, and an earlier request (made when a backend was available) archived.
C7_Witness ==
    /\ op = "do_run"
    /\ ~has_local_cuda /\ ~has_docker
    /\ project_var = Project
    /\ run.outcome = "no_backend"
    /\ HasExistingPipelineData(fs, from_step_var)
    /\ \E t \in 1..MaxClock : archives[t].present

\* C8: with exactly one backend available the selection is that backend; with
\* both available the selection is local unless the operator has clicked a
\* radio button; the backend handed to the run dispatcher is one the last
\* detection reported available.
C8_SelectionFollowsAvailability ==
    /\ (has_local_cuda /\ ~has_docker) => backend_var = "local"
    /\ (~has_local_cuda /\ has_docker) => backend_var = "docker"
    /\ (has_local_cuda /\ has_docker /\ operator_choice = "") => backend_var = "local"
    /\ (op = "do_run" /\ Dispatched) =>
           \/ run.backend = "local" /\ has_local_cuda
           \/ run.backend = "docker" /\ has_docker

====
